---- MODULE Spec2Model ----
(***************************************************************************)
(* Model of scenario_expression::Expression (expression.h): the intrusive  *)
(* reference-counted expression handle, the Literal / And / Or / Predicate *)
(* node kinds, the parser `read`, and plugin resolution in Procedure; and  *)
(* of scenario_intersection::Intersection (intersection.cpp): the named-   *)
(* state controller of one group of traffic lights.                        *)
(***************************************************************************)
EXTENDS Integers, Sequences, FiniteSets, TLC

\* ------------------------------------------------------------------ bounds
MaxNodes == 3        \* heap nodes allocated at once
MaxHandles == 2      \* Expression handle objects in scope at once
MaxCalls == 3        \* change_to calls made on the Intersection

NodeIds == 1..MaxNodes
Handles == 1..MaxHandles

\* nullptr
NULL == 0

VARIABLES
  heap,      \* NodeIds -> the node object allocated by `new T {...}`
  deletes,   \* NodeIds -> how many times `delete data` ran on the node
             \* allocated there last
  handles,   \* Handles -> an Expression handle object (a variable in scope)
  plugins,   \* plugin instances created by loader().createInstance
  last,      \* the most recent operation and what it returned / reported
  undefined, \* "no", or how the operation that executed undefined
             \* behaviour ended: "crashed" or "continued"
  script_,        \* the script the Intersection was constructed from
                  \* (0: no Intersection object exists)
  ids_,           \* Intersection::ids_
  change_to_,     \* Intersection::change_to_: state name -> controller
  current_state_, \* Intersection::current_state_
  simulator_,     \* *simulator_: the controllers applied to it so far
  called          \* the most recent Intersection call and what it returned

evars == <<heap, deletes, handles, plugins, last, undefined>>
ivars == <<script_, ids_, change_to_, current_state_, simulator_, called>>
vars == <<heap, deletes, handles, plugins, last, undefined,
          script_, ids_, change_to_, current_state_, simulator_, called>>

Min(S) == CHOOSE x \in S : \A y \in S : x <= y

\* ------------------------------------------------------- YAML input nodes
\* A YAML::Node: its type, its scalar text, its sequence items, and for a
\* map the value stored under each key the parser and the plugins look at
\* (0: key absent, i.e. node["Key"] is not defined).  Children are indices
\* in YamlNodes.
YNull == [type |-> "Null", scalar |-> "", items |-> <<>>,
          All |-> 0, Any |-> 0, Type |-> 0, Params |-> 0, Foo |-> 0,
          Name |-> 0]
YScalar(s) == [YNull EXCEPT !.type = "Scalar", !.scalar = s]
YSeq(items) == [YNull EXCEPT !.type = "Sequence", !.items = items]
YMap(all, any, typ, params, foo) ==
  [YNull EXCEPT !.type = "Map", !.All = all, !.Any = any, !.Type = typ,
                !.Params = params, !.Foo = foo]

\* {Type: typ, Name: name}
YNamed(typ, name) == [YMap(0, 0, typ, 0, 0) EXCEPT !.Name = name]

YamlNodes ==
  << YNull,                 \*  1  ~
     YScalar("true"),       \*  2  true
     YScalar("AlwaysTrue"), \*  3  AlwaysTrue
     YScalar("NoSuchThing"),\*  4  NoSuchThing
     YSeq(<<>>),            \*  5  []
     YMap(0, 0, 3, 0, 0),   \*  6  {Type: AlwaysTrue}
     YMap(0, 0, 4, 0, 0),   \*  7  {Type: NoSuchThing}
     YMap(0, 0, 3, 2, 0),   \*  8  {Type: AlwaysTrue, Params: true}
     YMap(0, 0, 0, 0, 2),   \*  9  {Foo: true}
     YSeq(<<7, 6>>),        \* 10  [{Type: NoSuchThing}, {Type: AlwaysTrue}]
     YMap(10, 0, 0, 0, 0),  \* 11  {All: [7, 6]}
     YMap(0, 10, 0, 0, 0),  \* 12  {Any: [7, 6]}
     YMap(5, 10, 3, 0, 0),  \* 13  {All: [], Any: [7, 6], Type: AlwaysTrue}
     YMap(0, 5, 3, 2, 0),   \* 14  {Any: [], Type: AlwaysTrue, Params: true}
     YSeq(<<14>>),          \* 15  [{Any: [], ...}]
     YMap(15, 0, 0, 0, 0),  \* 16  {All: [{Any: []}]}
     YSeq(<<6, 9>>),        \* 17  [{Type: AlwaysTrue}, {Foo: true}]
     YMap(0, 17, 0, 0, 0),  \* 18  {Any: [{Type: AlwaysTrue}, {Foo: true}]}
     YSeq(<<1, 14>>),       \* 19  [~, {Any: [], ...}]
     YMap(19, 0, 0, 0, 0),  \* 20  {All: [~, {Any: []}]}
     YMap(2, 0, 0, 0, 0),   \* 21  {All: true}   (value is not a sequence)
     YSeq(<<2>>),           \* 22  [true]
     YMap(22, 0, 0, 0, 0),  \* 23  {All: [true]}
     YNamed(3, 5),          \* 24  {Type: AlwaysTrue, Name: []}
     YSeq(<<24, 6>>),       \* 25  [{Type: AlwaysTrue, Name: []}, {Type: AlwaysTrue}]
     YMap(25, 0, 0, 0, 0)   \* 26  {All: [{..., Name: []}, {Type: AlwaysTrue}]}
  >>

YamlIds == 1..Len(YamlNodes)

IsScalar(y) == YamlNodes[y].type = "Scalar"
IsSequence(y) == YamlNodes[y].type = "Sequence"
IsMap(y) == YamlNodes[y].type = "Map"
\* node[key] converted to bool: the key is defined in the map
HasKey(y, v) == IsMap(y) /\ v # 0

\* The names pluginlib reports from getDeclaredClasses()
Declarations == {"AlwaysTrueCondition"}

\* ------------------------------------------------------------ node memory
\* A node is itself an Expression: it carries its own `data` (nullptr) and
\* `reference_count` (1, from the tagged protected constructor).
FreeNode == [st |-> "free", kind |-> "None", rc |-> 0, data |-> NULL,
             value |-> 0, operands |-> <<>>, impl |-> NULL]

\* Expression(std::integral_constant<int, 0>): data nullptr, count 1
NodeBase(kind) == [FreeNode EXCEPT !.st = "live", !.kind = kind, !.rc = 1,
                                   !.data = NULL]

\* The memory an operation works on, threaded through its steps:
\*   uaf   - a freed node was read or written (undefined behaviour)
\*   fell  - control flowed off the end of a value-returning function
\*           (undefined behaviour)
\*   oom   - the model's node bound was exceeded
\*   crash - undefined behaviour terminated the process
\*   threw - an exception is propagating out of the step
\*   ret   - the pointer held by the value the step returned
\*   log   - errors reported by the operation
\*   evaluated - the operands whose evaluate was called by the evaluation
\*           of an And / Or node, in the order of the calls
Mem == [heap |-> heap, deletes |-> deletes, plugins |-> plugins,
        log |-> <<>>, uaf |-> FALSE, fell |-> FALSE, oom |-> FALSE,
        crash |-> FALSE, threw |-> FALSE,
        ret |-> NULL, evaluated |-> <<>>]

\* new T {...}: the base-class part of the fresh node, at the lowest
\* address that holds no live node
New(M, kind) ==
  LET free == {n \in NodeIds : M.heap[n].st # "live"} IN
  IF M.oom \/ free = {}
  THEN [M EXCEPT !.oom = TRUE, !.ret = NULL]
  ELSE [M EXCEPT !.heap[Min(free)] = NodeBase(kind),
                 !.deletes[Min(free)] = 0, !.ret = Min(free)]

\* faulty variant of Acquire: the copy shares the node without counting itself
Acquire_NoIncrement(M, p) == M

\* Expression(const Expression&): if (data) ++(data->reference_count)
Acquire(M, p) ==
  IF p = NULL THEN M
  ELSE [M EXCEPT !.heap[p].rc = @ + 1,
                 !.uaf = @ \/ M.heap[p].st # "live"]

\* faulty variant of ShouldDelete: the last release does not delete
ShouldDelete_Never(count) == FALSE

\* the test `--(data->reference_count) == 0`, on the decremented count
ShouldDelete(count) == count = 0

\* ~Expression(): if (data && --(data->reference_count) == 0) delete data;
\* `delete data` runs the node's destructor, which destroys its operand
\* vector and so every operand handle in it.
RECURSIVE Release(_, _), ReleaseAll(_, _)
Release(M, p) ==
  IF p = NULL THEN M
  ELSE LET M1 == [M EXCEPT !.heap[p].rc = @ - 1,
                           !.uaf = @ \/ M.heap[p].st # "live"]
       IN IF ShouldDelete(M1.heap[p].rc)
          THEN ReleaseAll([M1 EXCEPT !.heap[p] = [FreeNode EXCEPT !.st = "deleted"],
                                     !.deletes[p] = @ + 1],
                          M1.heap[p].operands)
          ELSE M1

ReleaseAll(M, ops) ==
  IF ops = <<>> THEN M
  ELSE ReleaseAll(Release(M, Head(ops)), Tail(ops))

\* remake(e): release the node held so far, then hold e
Remake(M, data, e) == [Release(M, data) EXCEPT !.ret = e]

\* `return e;` of a local handle: the copy constructor makes the returned
\* value and the local is destroyed (copy elision gives the same counts)
ReturnByValue(M, p) == [Release(Acquire(M, p), p) EXCEPT !.ret = p]

\* Expression::make<T>(xs...), given the memory after `new T {xs...}`
\* built node n
Make(M, n) ==
  IF M.oom \/ M.crash \/ M.threw THEN M
  ELSE ReturnByValue(Remake(M, NULL, n), n)

\* ------------------------------------------------- undefined return value
\* A value-returning function whose body ends without `return` (Expression::
\* evaluate, and four paths of read): the build either terminates the
\* process or hands the caller an Expression whose data pointer is whatever
\* the return slot held - null, or the address of some node.
UBChoices ==
  {[crash |-> TRUE, data |-> NULL]} \cup
  {[crash |-> FALSE, data |-> p] :
     p \in {NULL} \cup {n \in NodeIds : heap[n].st # "free"}}

NoUB == [crash |-> FALSE, data |-> NULL]

FallOff(M, ub) ==
  [M EXCEPT !.fell = TRUE, !.crash = @ \/ ub.crash, !.ret = ub.data]

RosError(text) == [chan |-> "ROS_ERROR", text |-> text]
StdOut(text) == [chan |-> "cout", text |-> text]

\* ------------------------------------------------------ Procedure plugins
\* read_optional<std::string>(node_, "Name", name_) in configure: the value
\* under Name, if there is one, is converted to a string, and the
\* conversion of a node that is no scalar throws
NameConverts(y) == ~HasKey(y, YamlNodes[y].Name) \/ IsScalar(YamlNodes[y].Name)

\* AlwaysTrueCondition::configure: stores node and api and reads Name, then
\* returns configured_ = true; if anything threw, sets configured_ = false
\* and rethrows
Configure(M, i, y) ==
  [M EXCEPT !.plugins[i].configureCalls = @ + 1,
            !.plugins[i].configured = NameConverts(y),
            !.threw = ~NameConverts(y)]

\* AlwaysTrueCondition::update: return true
AlwaysTrueCondition_update(M, i) ==
  [M EXCEPT !.plugins[i].updateCalls = @ + 1, !.ret = TRUE]

\* Procedure::load(name): exact match among the declared class names
load(M, name) ==
  IF name \in Declarations
  THEN [M EXCEPT !.plugins = Append(@, [name |-> name, configureCalls |-> 0,
                                        configured |-> FALSE,
                                        updateCalls |-> 0]),
                 !.ret = Len(M.plugins) + 1]
  ELSE [M EXCEPT !.log = Append(@, RosError("Failed to load Procedure " \o name)),
                 !.ret = NULL]

\* Predicate::read(node)
Predicate_read(M, y) ==
  IF HasKey(y, YamlNodes[y].Type)
  THEN load(M, YamlNodes[YamlNodes[y].Type].scalar \o "Condition")
  ELSE load(M, "(type unspecified)")

\* Procedure::read(node): return { nullptr }
Procedure_read(M, y) == [M EXCEPT !.ret = NULL]

\* The virtual call read(node) in Procedure's member initializer: while the
\* Procedure base is under construction the final overrider is
\* Procedure::read, whatever the most derived class is.
ConstructorRead(M, y) == Procedure_read(M, y)

\* new Predicate {node}, through the inherited Procedure(const YAML::Node&):
\* if (impl) impl->configure(node, api).  When configure throws, the
\* exception leaves the constructor and the new-expression gives the
\* node's memory back; no object came into being.
Procedure(M, y) ==
  LET M1 == New(M, "Predicate")
      n  == M1.ret
      M2 == ConstructorRead(M1, y)
      i  == M2.ret
      M3 == [M2 EXCEPT !.heap[n].impl = i]
      M4 == IF i # NULL THEN Configure(M3, i, y) ELSE M3
  IN IF M1.oom THEN M1
     ELSE IF M4.threw THEN [M4 EXCEPT !.heap[n] = FreeNode, !.ret = NULL]
     ELSE [M4 EXCEPT !.ret = n]

\* -------------------------------------------------------------- the parser
\* Literal(const value_type&) through make<Boolean>(v) / make<Number>(v)
Literal(M, kind, v) ==
  LET M1 == New(M, kind) IN
  IF M1.oom THEN M1 ELSE [M1 EXCEPT !.heap[M1.ret].value = v]

RECURSIVE read(_, _, _), ReadOperands(_, _, _, _)

\* NAME(const YAML::Node&): operands.push_back(read(each)) for each element
\* of a sequence, nothing for any other node.  push_back copies the
\* temporary into the vector, then the temporary is destroyed.
ReadOperands(M, n, items, ub) ==
  IF items = <<>> \/ M.oom \/ M.crash \/ M.threw THEN M
  ELSE LET M1 == read(M, Head(items), ub)
           t  == M1.ret
           M2 == Acquire(M1, t)
           M3 == [M2 EXCEPT !.heap[n].operands = Append(@, t)]
       IN IF M1.oom \/ M1.crash \/ M1.threw THEN M1
          ELSE ReadOperands(Release(M3, t), n, Tail(items), ub)

\* Expression::make<And>(node) / Expression::make<Or>(node).  When read of
\* an element throws, the exception leaves the constructor: the operands
\* pushed so far are destroyed and the node's memory is given back.
Logical(M, kind, y, ub) ==
  LET M1 == New(M, kind)
      n  == M1.ret
      M2 == IF IsSequence(y)
            THEN ReadOperands(M1, n, YamlNodes[y].items, ub)
            ELSE M1
  IN IF M1.oom THEN M1
     ELSE IF M2.threw /\ ~M2.oom /\ ~M2.crash
     THEN [ReleaseAll(M2, M2.heap[n].operands)
             EXCEPT !.heap[n] = FreeNode, !.ret = NULL]
     ELSE Make([M2 EXCEPT !.ret = n], n)

read(M, y, ub) ==
  IF M.oom \/ M.crash \/ M.threw THEN M
  ELSE IF IsScalar(y)
  THEN FallOff([M EXCEPT !.log = Append(@, RosError("IsScalar"))], ub)
  ELSE IF IsSequence(y)
  THEN FallOff([M EXCEPT !.log = Append(@, RosError("IsSequence"))], ub)
  ELSE IF IsMap(y)
  THEN IF HasKey(y, YamlNodes[y].All)
       THEN Logical(M, "And", YamlNodes[y].All, ub)
       ELSE IF HasKey(y, YamlNodes[y].Any)
       THEN Logical(M, "Or", YamlNodes[y].Any, ub)
       ELSE IF HasKey(y, YamlNodes[y].Type)
       THEN IF HasKey(y, YamlNodes[y].Params)
            THEN FallOff(M, ub)
            ELSE LET M1 == Procedure(M, y) IN Make(M1, M1.ret)
       ELSE FallOff([M EXCEPT !.log = Append(@, StdOut("ERROR!"))], ub)
  ELSE [M EXCEPT !.ret = NULL]

\* ------------------------------------------------------------- evaluation
\* Literal::evaluate: `return *this;` copy-constructs the returned
\* Expression from the node object, so it takes the node's own data member
LiteralEvaluate(M, n) ==
  [Acquire(M, M.heap[n].data) EXCEPT !.ret = M.heap[n].data]

\* faulty variant of LogicalEvaluate: the node remembers that it was
\* evaluated, and answers true only the first time
LogicalEvaluate_Once(M, n) ==
  LET M1 == Literal(M, "Boolean", 1 - M.heap[n].value)
      M2 == IF M1.oom THEN M1 ELSE [M1 EXCEPT !.heap[n].value = 1]
  IN Make(M2, M2.ret)

\* And::evaluate / Or::evaluate: return Expression::make<Boolean>(true)
LogicalEvaluate(M, n) ==
  LET M1 == Literal(M, "Boolean", 1) IN Make(M1, M1.ret)

\* Expression::evaluate: an empty body
ExpressionEvaluate(M, ub) == FallOff(M, ub)

\* the virtual call data->evaluate() on node n
NodeEvaluate(M, n, ub) ==
  IF M.heap[n].kind \in {"Boolean", "Number"} THEN LiteralEvaluate(M, n)
  ELSE IF M.heap[n].kind \in {"And", "Or"} THEN LogicalEvaluate(M, n)
  ELSE ExpressionEvaluate(M, ub)

\* ------------------------------------------------------------------ state
\* last: the operation; for make, read and evaluate the node made or
\* evaluated (n); for a copy-assignment the node assigned (n) and the node
\* the assigned-to handle referred to before (old); the YAML node read (y),
\* the pointer in the returned handle (ret), how the call ended, what it
\* reported, and for the evaluation of an And / Or node the operands it
\* evaluated, in that order
NoOp == [op |-> "none", n |-> NULL, old |-> NULL, y |-> 0,
         ret |-> NULL, outcome |-> "none", log |-> <<>>, evaluated |-> <<>>]

\* Expression(): data nullptr
NilHandle == [alive |-> TRUE, data |-> NULL]
NoHandle == [alive |-> FALSE, data |-> NULL]
Holding(p) == [alive |-> TRUE, data |-> p]

\* called: the member function; its argument (the script of the
\* constructor, the_state of change_to, the time of update); what it
\* returned (the bool of change_to, the vector of ids, the status of
\* update); whether it returned or threw; and the errors it reported
NoCall == [op |-> "none", script |-> 0, the_state |-> "", time |-> 0,
           ok |-> FALSE, ids |-> <<>>, status |-> "", outcome |-> "none",
           log |-> <<>>]

\* no Intersection object: nothing constructed yet
NoIntersection ==
  /\ script_ = 0
  /\ ids_ = <<>>
  /\ change_to_ = <<>>
  /\ current_state_ = ""
  /\ simulator_ = <<>>

Init ==
  /\ heap = [n \in NodeIds |-> FreeNode]
  /\ deletes = [n \in NodeIds |-> 0]
  /\ handles = [h \in Handles |-> NoHandle]
  /\ plugins = <<>>
  /\ last = NoOp
  /\ undefined = "no"
  /\ NoIntersection
  /\ called = NoCall

Alive(h) == handles[h].alive
Dead(h) == ~handles[h].alive
\* the slot a newly declared handle takes
Fresh(d) == Dead(d) /\ \A e \in Handles : Dead(e) => d <= e

\* The state after an operation that left memory M and handles hs.  Touching
\* a freed node is undefined: the process may or may not be terminated.
\* Nothing is said about what follows an operation that was undefined.
Step(M, hs, rec) ==
  /\ ~M.oom
  /\ undefined' \in (IF M.crash THEN {"crashed"}
                     ELSE IF M.uaf THEN {"crashed", "continued"}
                     ELSE IF M.fell THEN {"continued"} ELSE {"no"})
  /\ heap' = M.heap
  /\ deletes' = M.deletes
  /\ plugins' = M.plugins
  /\ handles' = IF M.crash \/ M.threw THEN handles ELSE hs
  /\ last' = [rec EXCEPT !.ret = M.ret, !.log = M.log,
                         !.evaluated = M.evaluated,
                         !.outcome = IF undefined' = "crashed" THEN "crash"
                                     ELSE IF M.threw THEN "threw"
                                     ELSE "returned"]
  /\ UNCHANGED ivars

\* ---------------------------------------------------------------- actions
\* Expression d = Expression::make<Boolean>(v) / make<Number>(v)
MakeLiteral(d, kind, v) ==
  /\ undefined = "no" /\ Fresh(d)
  /\ LET M1 == Literal(Mem, kind, v)
         M2 == Make(M1, M1.ret)
     IN Step(M2, [handles EXCEPT ![d] = Holding(M2.ret)],
             [NoOp EXCEPT !.op = "make", !.n = M2.ret])

\* Expression d = read(node), on a node every path of which returns a value
ReadWellFormed(d, y) ==
  /\ undefined = "no" /\ Fresh(d)
  /\ LET M1 == read(Mem, y, NoUB)
     IN /\ ~M1.fell
        /\ Step(M1, [handles EXCEPT ![d] = Holding(M1.ret)],
                [NoOp EXCEPT !.op = "read", !.y = y, !.n = M1.ret])

\* Expression d = read(node), on a node for which read flows off its end
ReadUnsupported(d, y, ub) ==
  /\ undefined = "no" /\ Fresh(d)
  /\ LET M1 == read(Mem, y, ub)
     IN /\ M1.fell
        /\ Step(M1, [handles EXCEPT ![d] = Holding(M1.ret)],
                [NoOp EXCEPT !.op = "read", !.y = y, !.n = M1.ret])

\* Expression d { h }
CopyConstruct(d, h) ==
  /\ undefined = "no" /\ Fresh(d) /\ Alive(h)
  /\ LET M1 == Acquire(Mem, handles[h].data)
     IN Step([M1 EXCEPT !.ret = NULL],
             [handles EXCEPT ![d] = Holding(handles[h].data)],
             [NoOp EXCEPT !.op = "copy"])

\* h = g:  Expression e { g }; swap(e); and e is destroyed
CopyAssign(h, g) ==
  /\ undefined = "no" /\ Alive(h) /\ Alive(g)
  /\ LET M1 == Acquire(Mem, handles[g].data)
         M2 == Release(M1, handles[h].data)
     IN Step([M2 EXCEPT !.ret = NULL],
             [handles EXCEPT ![h] = Holding(handles[g].data)],
             [NoOp EXCEPT !.op = "assign", !.n = handles[g].data,
                          !.old = handles[h].data])

\* h.swap(g): std::swap(data, e.data)
Swap(h, g) ==
  /\ undefined = "no" /\ Alive(h) /\ Alive(g)
  /\ Step(Mem, [handles EXCEPT ![h] = handles[g], ![g] = handles[h]],
          [NoOp EXCEPT !.op = "swap"])

\* the handle h goes out of scope: ~Expression()
Destroy(h) ==
  /\ undefined = "no" /\ Alive(h)
  /\ LET M1 == Release(Mem, handles[h].data)
     IN Step([M1 EXCEPT !.ret = NULL], [handles EXCEPT ![h] = NoHandle],
             [NoOp EXCEPT !.op = "destroy"])

\* Expression d = n->evaluate(), n the node h refers to, for the node kinds
\* that override evaluate (Literal, And, Or)
EvaluateNode(d, h) ==
  /\ undefined = "no" /\ Fresh(d) /\ Alive(h) /\ handles[h].data # NULL
  /\ heap[handles[h].data].kind \in {"Boolean", "Number", "And", "Or"}
  /\ LET M1 == NodeEvaluate(Mem, handles[h].data, NoUB)
     IN Step(M1, [handles EXCEPT ![d] = Holding(M1.ret)],
             [NoOp EXCEPT !.op = "node_evaluate", !.n = handles[h].data])

\* d = n->evaluate(), n the node h refers to, d a handle that exists: the
\* returned temporary is copy-assigned to d (copy, swap, the old value of d
\* is destroyed) and then destroyed itself
EvaluateAssign(d, h) ==
  /\ undefined = "no" /\ Alive(d) /\ Alive(h) /\ handles[h].data # NULL
  /\ heap[handles[h].data].kind \in {"Boolean", "Number", "And", "Or"}
  /\ LET M1 == NodeEvaluate(Mem, handles[h].data, NoUB)
         r  == M1.ret
         M2 == Acquire(M1, r)
         M3 == Release(M2, handles[d].data)
         M4 == Release(M3, r)
     IN Step([M4 EXCEPT !.ret = r], [handles EXCEPT ![d] = Holding(r)],
             [NoOp EXCEPT !.op = "evaluate_assign", !.n = handles[h].data,
                          !.old = handles[d].data])

\* Expression d = n->evaluate() for a Predicate node, which inherits
\* Expression::evaluate
EvaluateProcedure(d, h, ub) ==
  /\ undefined = "no" /\ Fresh(d) /\ Alive(h) /\ handles[h].data # NULL
  /\ heap[handles[h].data].kind = "Predicate"
  /\ LET M1 == NodeEvaluate(Mem, handles[h].data, ub)
     IN Step(M1, [handles EXCEPT ![d] = Holding(M1.ret)],
             [NoOp EXCEPT !.op = "node_evaluate", !.n = handles[h].data])

\* Expression d = h.evaluate(): Expression::evaluate on the handle object
EvaluateHandle(d, h, ub) ==
  /\ undefined = "no" /\ Fresh(d) /\ Alive(h) /\ handles[h].data # NULL
  /\ LET M1 == ExpressionEvaluate(Mem, ub)
     IN Step(M1, [handles EXCEPT ![d] = Holding(M1.ret)],
             [NoOp EXCEPT !.op = "evaluate", !.n = handles[h].data])

\* the literals the callers make: false and 2.0 (true is what And / Or make)
LiteralValues == {<<"Boolean", 0>>, <<"Number", 2>>}

DoMakeLiteral == \E d \in Handles, kv \in LiteralValues : MakeLiteral(d, kv[1], kv[2])
DoReadWellFormed == \E d \in Handles, y \in YamlIds : ReadWellFormed(d, y)
DoCopyConstruct == \E d, h \in Handles : CopyConstruct(d, h)
DoCopyAssign == \E h, g \in Handles : CopyAssign(h, g)
DoSwap == \E h, g \in Handles : Swap(h, g)
DoDestroy == \E h \in Handles : Destroy(h)
DoEvaluateNode == \E d, h \in Handles : EvaluateNode(d, h)
DoEvaluateAssign == \E d, h \in Handles : EvaluateAssign(d, h)
DoReadUnsupported ==
  \E d \in Handles, y \in YamlIds, ub \in UBChoices : ReadUnsupported(d, y, ub)
DoEvaluateProcedure ==
  \E d, h \in Handles, ub \in UBChoices : EvaluateProcedure(d, h, ub)
DoEvaluateHandle ==
  \E d, h \in Handles, ub \in UBChoices : EvaluateHandle(d, h, ub)

\* The operations whose behaviour the language defines
Next ==
  \/ DoMakeLiteral
  \/ DoReadWellFormed
  \/ DoCopyConstruct
  \/ DoCopyAssign
  \/ DoSwap
  \/ DoDestroy
  \/ DoEvaluateNode

Spec == Init /\ [][Next]_vars

\* Building, sharing and dropping trees, and evaluating them repeatedly, the
\* result of an evaluation replacing the result of the one before
NextEvaluate ==
  \/ DoMakeLiteral
  \/ DoReadWellFormed
  \/ DoCopyConstruct
  \/ DoDestroy
  \/ DoEvaluateNode
  \/ DoEvaluateAssign

SpecEvaluate == Init /\ [][NextEvaluate]_vars

\* All operations, those with undefined behaviour included
NextUB ==
  \/ Next
  \/ DoReadUnsupported
  \/ DoEvaluateProcedure
  \/ DoEvaluateHandle

SpecUB == Init /\ [][NextUB]_vars

\* =========================================================== Intersection
\* ------------------------------------------------------ the script (YAML)
\* A scalar's text is the sequence of its characters
Text1 == <<"1">>
Text12 == <<"1", "2">>
Text3 == <<"3">>
TextX == <<"x">>

\* An element of Control: whether it has the key StateName, the name under
\* it, and the rest of the element (the colour it asks for)
Entry(named, name, color) ==
  [named |-> named, StateName |-> name, Color |-> color]

\* The node 'Intersection': whether it has the keys TrafficLightId and
\* Control, and the sequences under them
Script(hasIds, ids, hasControl, controls) ==
  [hasIds |-> hasIds, TrafficLightId |-> ids,
   hasControl |-> hasControl, Control |-> controls]

IntersectionScripts ==
  << \* 1  {TrafficLightId: [1, 12], Control: [Red, Green]}
     Script(TRUE, <<Text1, Text12>>, TRUE,
            <<Entry(TRUE, "Red", "red"), Entry(TRUE, "Green", "green")>>),
     \* 2  {Control: [Red]}
     Script(FALSE, <<>>, TRUE, <<Entry(TRUE, "Red", "red")>>),
     \* 3  {TrafficLightId: [3]}
     Script(TRUE, <<Text3>>, FALSE, <<>>),
     \* 4  {TrafficLightId: [1], Control: [Red, {no StateName}, Green]}
     Script(TRUE, <<Text1>>, TRUE,
            <<Entry(TRUE, "Red", "red"), Entry(FALSE, "", "yellow"),
              Entry(TRUE, "Green", "green")>>),
     \* 5  {TrafficLightId: [1], Control: [Red -> red, Red -> green]}
     Script(TRUE, <<Text1>>, TRUE,
            <<Entry(TRUE, "Red", "red"), Entry(TRUE, "Red", "green")>>),
     \* 6  {}
     Script(FALSE, <<>>, FALSE, <<>>),
     \* 7  {TrafficLightId: [x], Control: [Red]}
     Script(TRUE, <<TextX>>, TRUE, <<Entry(TRUE, "Red", "red")>>),
     \* 8  {TrafficLightId: [], Control: []}
     Script(TRUE, <<>>, TRUE, <<>>)
  >>

ScriptIds == 1..Len(IntersectionScripts)

\* the state names change_to is called with
StateNames == {"Red", "Green", "NameNotInControl"}

\* the times update is called with
Ticks == {0, 1}

\* each.as<std::size_t>(): the decimal digits of the scalar; any other text
\* is a bad conversion, which throws
DigitValue ==
  ("0" :> 0) @@ ("1" :> 1) @@ ("2" :> 2) @@ ("3" :> 3) @@ ("4" :> 4) @@
  ("5" :> 5) @@ ("6" :> 6) @@ ("7" :> 7) @@ ("8" :> 8) @@ ("9" :> 9)

Convertible(text) ==
  text # <<>> /\ \A i \in DOMAIN text : text[i] \in DOMAIN DigitValue

RECURSIVE AsSizeT(_, _)
AsSizeT(text, acc) ==
  IF text = <<>> THEN acc
  ELSE AsSizeT(Tail(text), acc * 10 + DigitValue[Head(text)])

\* ------------------------------------------------------------ controllers
\* the mapped value change_to_.emplace(name, each) builds from the element
Controller(each) == [blank |-> FALSE, entry |-> each]

\* the mapped value a default-constructed controller is: the "Blank" state
Blank == [blank |-> TRUE, entry |-> Entry(FALSE, "", "")]

\* controller(*simulator_): the controller is applied to the simulator,
\* which answers whether it succeeded (ok, decided by the simulator); the
\* simulator's record of the call is what it was given and what it answered
Apply(controller, simulator, ok) ==
  [simulator_ |-> Append(simulator, [controller |-> controller, answer |-> ok]),
   ret |-> ok]

\* faulty variant of Emplace: a later element replaces an earlier one of
\* the same name
Emplace_Replacing(map, key, value) ==
  [k \in DOMAIN map \cup {key} |-> IF k = key THEN value ELSE map[k]]

\* change_to_.emplace(key, value): no effect if the key is present
Emplace(map, key, value) ==
  IF key \in DOMAIN map THEN map ELSE map @@ (key :> value)

\* change_to_[key]: the map after the subscript, which default-constructs
\* the mapped value of a key that is absent
Subscript(map, key) ==
  IF key \in DOMAIN map THEN map ELSE map @@ (key :> Blank)

\* ------------------------------------------------------------ constructor
\* the members after the member initializers, and what the body reported
Members == [ids_ |-> <<>>, change_to_ |-> <<>>, current_state_ |-> "",
            log |-> <<>>, threw |-> FALSE]

MissingTrafficLightId ==
  RosError("Each element of node 'Intersection' requires hash 'TrafficLightId'.")
MissingStateName ==
  RosError("Each element of node 'Control' requires hash 'StateName'.")
MissingControl ==
  RosError("Each element of node 'Intersection' requires hash 'Control'.")

RECURSIVE EmplaceIds(_, _), EmplaceControls(_, _), EmplaceControls_Stopping(_, _)

\* for (const auto& each : ids) ids_.emplace_back(each.as<std::size_t>())
EmplaceIds(I, ids) ==
  IF ids = <<>> \/ I.threw THEN I
  ELSE IF Convertible(Head(ids))
  THEN EmplaceIds([I EXCEPT !.ids_ = Append(@, AsSizeT(Head(ids), 0))],
                  Tail(ids))
  ELSE [I EXCEPT !.threw = TRUE]

\* faulty variant of EmplaceControls: the loop stops at the first element
\* that has no StateName
EmplaceControls_Stopping(I, controls) ==
  IF controls = <<>> THEN I
  ELSE IF Head(controls).named
  THEN EmplaceControls_Stopping(
         [I EXCEPT !.change_to_ = Emplace(@, Head(controls).StateName,
                                          Controller(Head(controls)))],
         Tail(controls))
  ELSE [I EXCEPT !.log = Append(@, MissingStateName)]

\* for (const auto& each : controls): emplace under each["StateName"], or
\* report the element that has none
EmplaceControls(I, controls) ==
  IF controls = <<>> THEN I
  ELSE EmplaceControls(
         IF Head(controls).named
         THEN [I EXCEPT !.change_to_ = Emplace(@, Head(controls).StateName,
                                               Controller(Head(controls)))]
         ELSE [I EXCEPT !.log = Append(@, MissingStateName)],
         Tail(controls))

\* Intersection::Intersection(script, simulator)
Intersection(s) ==
  LET script == IntersectionScripts[s]
      I1 == IF script.hasIds
            THEN EmplaceIds(Members, script.TrafficLightId)
            ELSE [Members EXCEPT !.log = Append(@, MissingTrafficLightId)]
  IN IF I1.threw THEN I1
     ELSE IF script.hasControl
     THEN EmplaceControls(I1, script.Control)
     ELSE [I1 EXCEPT !.log = Append(@, MissingControl)]

\* ------------------------------------------------------- member functions
\* faulty variant of change_to: a name that is not registered is rejected
\* and nothing changes
change_to_Rejecting(the_state, ok) ==
  IF the_state \in DOMAIN change_to_
  THEN [current_state_ |-> the_state, change_to_ |-> change_to_,
        simulator_ |-> Apply(change_to_[the_state], simulator_, ok).simulator_,
        ret |-> ok]
  ELSE [current_state_ |-> current_state_, change_to_ |-> change_to_,
        simulator_ |-> simulator_, ret |-> FALSE]

\* faulty variant of change_to: the state is recorded only if the simulator
\* accepted the controller
change_to_RollingBack(the_state, ok) ==
  LET map == Subscript(change_to_, the_state)
      R   == Apply(map[the_state], simulator_, ok)
  IN [current_state_ |-> IF ok THEN the_state ELSE current_state_,
      change_to_ |-> map, simulator_ |-> R.simulator_, ret |-> R.ret]

\* Intersection::change_to(the_state):
\*   return change_to_[current_state_ = the_state](*simulator_);
change_to(the_state, ok) ==
  LET map == Subscript(change_to_, the_state)
      R   == Apply(map[the_state], simulator_, ok)
  IN [current_state_ |-> the_state, change_to_ |-> map,
      simulator_ |-> R.simulator_, ret |-> R.ret]

\* Intersection::ids()
ids == ids_

\* faulty variant of update: the status follows the tick time
update_TimeDriven(t) == IF t = 0 THEN "ongoing" ELSE "succeeded"

\* Intersection::update(const ros::Time&)
update(t) == "ongoing"

\* ---------------------------------------------------------------- actions
\* Intersection {script, simulator}; if a conversion throws, no object
\* comes into being
Construct(s) ==
  /\ script_ = 0
  /\ LET I == Intersection(s) IN
     /\ script_' = IF I.threw THEN 0 ELSE s
     /\ ids_' = IF I.threw THEN <<>> ELSE I.ids_
     /\ change_to_' = IF I.threw THEN <<>> ELSE I.change_to_
     /\ current_state_' = I.current_state_
     /\ called' = [NoCall EXCEPT !.op = "Intersection", !.script = s,
                                 !.outcome = IF I.threw THEN "threw"
                                             ELSE "returned",
                                 !.log = I.log]
  /\ UNCHANGED <<simulator_, evars>>

ChangeTo(the_state, ok) ==
  /\ script_ # 0
  /\ Len(simulator_) < MaxCalls
  /\ LET R == change_to(the_state, ok) IN
     /\ current_state_' = R.current_state_
     /\ change_to_' = R.change_to_
     /\ simulator_' = R.simulator_
     /\ called' = [NoCall EXCEPT !.op = "change_to", !.the_state = the_state,
                                 !.ok = R.ret, !.outcome = "returned"]
  /\ UNCHANGED <<script_, ids_, evars>>

Ids ==
  /\ script_ # 0
  /\ called' = [NoCall EXCEPT !.op = "ids", !.ids = ids,
                              !.outcome = "returned"]
  /\ UNCHANGED <<script_, ids_, change_to_, current_state_, simulator_, evars>>

Update(t) ==
  /\ script_ # 0
  /\ called' = [NoCall EXCEPT !.op = "update", !.time = t,
                              !.status = update(t), !.outcome = "returned"]
  /\ UNCHANGED <<script_, ids_, change_to_, current_state_, simulator_, evars>>

DoConstruct == \E s \in ScriptIds : Construct(s)
DoChangeTo == \E the_state \in StateNames, ok \in BOOLEAN : ChangeTo(the_state, ok)
DoUpdate == \E t \in Ticks : Update(t)

NextIntersection ==
  \/ DoConstruct
  \/ DoChangeTo
  \/ Ids
  \/ DoUpdate

SpecIntersection == Init /\ [][NextIntersection]_vars

\* ============================================================= properties

\* live handles that refer to node n: variables in scope, and operands of
\* live nodes
HandleRefs(n) ==
  Cardinality({h \in Handles : handles[h].alive /\ handles[h].data = n})
OperandRefs(n) ==
  Cardinality({mi \in UNION {{<<m, i>> : i \in DOMAIN heap[m].operands} : m \in NodeIds} :
                 heap[mi[1]].st = "live" /\ heap[mi[1]].operands[mi[2]] = n})
Refs(n) == HandleRefs(n) + OperandRefs(n)

\* C1: each node is deleted exactly once, at the operation that removes the
\* last handle referring to it: in every state a node that is allocated and
\* not deleted is referred to by a live handle and was never deleted; a node
\* that is not live is referred to by no live handle; and no node was
\* deleted more than once.  As this holds before and after every operation,
\* the delete happens in the very step that drops the last reference.
C1_DeletedExactlyOnceAtLastRelease ==
  \A n \in NodeIds :
    /\ deletes[n] <= 1
    /\ heap[n].st = "live" => Refs(n) > 0 /\ deletes[n] = 0
    /\ heap[n].st = "deleted" => deletes[n] = 1
    /\ heap[n].st # "live" => Refs(n) = 0

\* an And/Or node and the nodes of its operands were all deleted by the
\* destruction of the last handle
C1_Witness ==
  /\ last.op = "destroy"
  /\ Cardinality({n \in NodeIds : heap[n].st = "deleted" /\ deletes[n] = 1}) >= 2
  /\ \A n \in NodeIds : heap[n].st # "live"

CountIsHandles ==
  \A n \in NodeIds : heap[n].st = "live" => heap[n].rc = Refs(n)

NoAllocation == \A m \in NodeIds : heap'[m].st = "live" => heap[m].st = "live"

\* every handle returned by make (directly, or within read and evaluate)
\* refers to a node that was not allocated before, with count 1
MakeCounts ==
  /\ last'.op = "make" => last'.ret # NULL
  /\ last'.op \in {"make", "read", "node_evaluate"} /\ last'.ret # NULL =>
       /\ heap[last'.ret].st # "live"
       /\ heap'[last'.ret].st = "live"
       /\ heap'[last'.ret].rc = 1

\* a copy-construction step: the handle that came into being refers to the
\* node of a handle that was alive
CopyCounts ==
  last'.op = "copy" =>
    \E d \in Handles :
      /\ Dead(d) /\ handles'[d].alive
      /\ \E h \in Handles : Alive(h) /\ handles[h].data = handles'[d].data
      /\ NoAllocation
      /\ handles'[d].data # NULL =>
           heap'[handles'[d].data].rc = heap[handles'[d].data].rc + 1

SwapCounts ==
  last'.op = "swap" => \A n \in NodeIds : heap'[n].rc = heap[n].rc

\* a destruction step: the handle that ceased to be
DestroyCounts ==
  last'.op = "destroy" =>
    \E h \in Handles :
      /\ Alive(h) /\ ~handles'[h].alive
      /\ handles[h].data # NULL =>
           heap'[handles[h].data].rc = heap[handles[h].data].rc - 1

\* copy-assignment as the specification words it: the count of the assigned node
\* always rises by one
AssignCountsAlways ==
  last'.op = "assign" =>
    /\ \E h \in Handles : handles'[h] = Holding(last'.n)
    /\ NoAllocation
    /\ last'.n # NULL => heap'[last'.n].rc = heap[last'.n].rc + 1

\* copy-assignment as the code has it: the count rises by one unless the
\* assigned-to handle already referred to that node, and then it is unchanged
AssignCounts ==
  last'.op = "assign" =>
    /\ \E h \in Handles : handles'[h] = Holding(last'.n)
    /\ NoAllocation
    /\ last'.n # NULL =>
         heap'[last'.n].rc = IF last'.old = last'.n THEN heap[last'.n].rc
                             ELSE heap[last'.n].rc + 1

\* C2 as stated: the count of a live node is the number of live handles
\* referring to it; make gives a fresh node with count 1; copy-construction
\* and copy-assignment share the node and raise the count by one, without
\* allocating; swap changes no count; destruction lowers the count by one.
C2_CountIsHandles_AsStated ==
  /\ []CountIsHandles
  /\ [][MakeCounts /\ CopyCounts /\ AssignCountsAlways /\ SwapCounts
        /\ DestroyCounts]_vars

\* C2 (amended): as above, except that copy-assignment raises the count by
\* one only when the assigned-to handle did not already refer to the
\* assigned node (self-assignment included); otherwise the count is
\* unchanged.
C2_CountIsHandles ==
  /\ []CountIsHandles
  /\ [][MakeCounts /\ CopyCounts /\ AssignCounts /\ SwapCounts
        /\ DestroyCounts]_vars

\* two handles share one node after a copy-assignment, and its count is 2
C2_Witness ==
  /\ last.op = "assign"
  /\ \E n \in NodeIds :
       heap[n].st = "live" /\ heap[n].rc = 2 /\ HandleRefs(n) = 2

\* --------------------------------------------------- values and truthiness
\* what a handle holding pointer p denotes
ValueOf(p) ==
  IF p = NULL THEN "nil"
  ELSE IF heap[p].kind = "Boolean"
       THEN (IF heap[p].value = 0 THEN "false" ELSE "true")
  ELSE IF heap[p].kind = "Number" THEN "number"
  ELSE "node"

Values == {"nil", "false", "true", "number", "node"}

\* the test of a value: whether it is not exactly Bool(false)
Truthy(v) == v # "false"

\* the values n->evaluate() can return for the node an operand c refers to:
\* a literal returns a copy of its base part, whose data is the node's own
\* data; And / Or return a new Boolean true; a Predicate (and a null
\* operand) has no defined result, so the value is indeterminate
EvaluateValues(c) ==
  IF c = NULL THEN Values
  ELSE IF heap[c].kind \in {"Boolean", "Number"} THEN {ValueOf(heap[c].data)}
  ELSE IF heap[c].kind \in {"And", "Or"} THEN {"true"}
  ELSE Values

\* every way the operands of node n can evaluate
OperandValues(n) ==
  {cv \in [DOMAIN heap[n].operands -> Values] :
     \A i \in DOMAIN heap[n].operands : cv[i] \in EvaluateValues(heap[n].operands[i])}

EvaluatedKind(kinds) ==
  /\ last.op = "node_evaluate"
  /\ last.n # NULL
  /\ heap[last.n].kind \in kinds

\* C3: evaluating an And node yields Bool(true) if and only if every child
\* evaluates truthy (empty list: true; a falsy child: false).
C3_AndIsConjunction ==
  EvaluatedKind({"And"}) =>
    /\ last.outcome = "returned"
    /\ ValueOf(last.ret) \in {"true", "false"}
    /\ \A cv \in OperandValues(last.n) :
         (ValueOf(last.ret) = "true") <=>
           (\A i \in DOMAIN cv : Truthy(cv[i]))

\* C4: evaluating an Or node yields Bool(true) if and only if at least one
\* child evaluates truthy (empty list: false).
C4_OrIsDisjunction ==
  EvaluatedKind({"Or"}) =>
    /\ last.outcome = "returned"
    /\ ValueOf(last.ret) \in {"true", "false"}
    /\ \A cv \in OperandValues(last.n) :
         (ValueOf(last.ret) = "true") <=>
           (\E i \in DOMAIN cv : Truthy(cv[i]))

\* C5: evaluating a Bool or Number literal returns the literal itself: a
\* non-nil handle carrying the same literal value, counted in the node's
\* reference count.
C5_LiteralEvaluatesToItself ==
  EvaluatedKind({"Boolean", "Number"}) =>
    /\ last.outcome = "returned"
    /\ last.ret # NULL
    /\ heap[last.ret].kind = heap[last.n].kind
    /\ heap[last.ret].value = heap[last.n].value
    /\ heap[last.ret].rc = Refs(last.ret)

\* C6: evaluate() on a non-nil handle produces the result of the evaluate
\* operation of the node the handle refers to.
C6_HandleEvaluateDispatches ==
  last.op = "evaluate" =>
    /\ undefined = "no"
    /\ last.outcome = "returned"
    /\ ValueOf(last.ret) \in EvaluateValues(last.n)

\* -------------------------------------------------------- read properties
\* the node kind the dispatch order documented for read assigns to a map
ExpectedKind(y) ==
  IF ~IsMap(y) THEN "none"
  ELSE IF HasKey(y, YamlNodes[y].All) THEN "And"
  ELSE IF HasKey(y, YamlNodes[y].Any) THEN "Or"
  ELSE IF HasKey(y, YamlNodes[y].Type)
       THEN (IF HasKey(y, YamlNodes[y].Params) THEN "Action" ELSE "Predicate")
  ELSE "none"

OperandSource(y) ==
  IF ExpectedKind(y) = "And" THEN YamlNodes[y].All ELSE YamlNodes[y].Any

RECURSIVE Dispatched(_, _)
Dispatched(p, y) ==
  /\ p # NULL
  /\ heap[p].st = "live"
  /\ heap[p].kind = ExpectedKind(y)
  /\ ExpectedKind(y) \in {"And", "Or"} /\ IsSequence(OperandSource(y)) =>
       LET items == YamlNodes[OperandSource(y)].items IN
       /\ Len(heap[p].operands) = Len(items)
       /\ \A i \in DOMAIN items :
            ExpectedKind(items[i]) # "none" =>
              i \in DOMAIN heap[p].operands /\ Dispatched(heap[p].operands[i], items[i])

\* C7: read on a map dispatches All -> And, else Any -> Or, else Type ->
\* Action (with Params) or Predicate (without); an And / Or has one operand
\* per element of the sequence, operand i being read(element i).
C7_ReadDispatch ==
  last.op = "read" /\ ExpectedKind(last.y) # "none" =>
    /\ undefined = "no"
    /\ last.outcome = "returned"
    /\ Dispatched(last.ret, last.y)

Unsupported(y) ==
  \/ IsScalar(y)
  \/ IsSequence(y)
  \/ IsMap(y) /\ ExpectedKind(y) = "none"

\* C8: read of a scalar, of a bare sequence, or of a map with none of All,
\* Any, Type ends in an explicit error, never in a returned Value.
C8_UnsupportedInputRejected ==
  last.op = "read" /\ Unsupported(last.y) => last.outcome = "error"

PluginName(y) == YamlNodes[YamlNodes[y].Type].scalar \o "Condition"

\* C9: a Predicate read from a map whose Type names a registered plugin
\* (Type followed by "Condition") owns a plugin instance of that name whose
\* configure has run exactly once.
C9_PredicateOwnsConfiguredPlugin ==
  last.op = "read" /\ ExpectedKind(last.y) = "Predicate"
    /\ PluginName(last.y) \in Declarations =>
      /\ last.outcome = "returned"
      /\ last.ret # NULL
      /\ heap[last.ret].kind = "Predicate"
      /\ heap[last.ret].impl # NULL
      /\ plugins[heap[last.ret].impl].name = PluginName(last.y)
      /\ plugins[heap[last.ret].impl].configureCalls = 1

Unresolved(y) ==
  ExpectedKind(y) = "Predicate" /\ PluginName(y) \notin Declarations

ReportsFailedLoad(name) ==
  \E i \in DOMAIN last.log :
    last.log[i] = RosError("Failed to load Procedure " \o name)

\* C10: a Predicate whose Type resolves to no registered plugin is built
\* with a null plugin handle, an error naming the requested plugin is
\* reported, and nothing is thrown: as a child of All / Any, all of its
\* siblings are still read.
C10_UnresolvedPluginReported ==
  last.op = "read" =>
    /\ Unresolved(last.y) =>
         /\ last.outcome = "returned"
         /\ last.ret # NULL
         /\ heap[last.ret].impl = NULL
         /\ ReportsFailedLoad(PluginName(last.y))
    /\ ExpectedKind(last.y) \in {"And", "Or"}
         /\ IsSequence(OperandSource(last.y)) =>
         LET items == YamlNodes[OperandSource(last.y)].items IN
         \A i \in DOMAIN items :
           Unresolved(items[i]) =>
             /\ last.outcome = "returned"
             /\ last.ret # NULL
             /\ Len(heap[last.ret].operands) = Len(items)
             /\ ReportsFailedLoad(PluginName(items[i]))

\* ------------------------------------------------- evaluation properties
\* a tree of Literal, And and Or nodes only
RECURSIVE Pure(_), TreeNodes(_)
Pure(p) ==
  /\ p # NULL
  /\ heap[p].st = "live"
  /\ \/ heap[p].kind \in {"Boolean", "Number"}
     \/ /\ heap[p].kind \in {"And", "Or"}
        /\ \A i \in DOMAIN heap[p].operands : Pure(heap[p].operands[i])

TreeNodes(p) ==
  {p} \cup UNION {TreeNodes(heap[p].operands[i]) : i \in DOMAIN heap[p].operands}

\* node, operands and reference count of every node of the tree are the same
\* after the step as before it
TreeUnchanged(p) == \A m \in TreeNodes(p) : heap'[m] = heap[m]

\* an evaluation of a pure tree (the result goes to a new handle)
FirstEvaluation == last'.op = "node_evaluate" /\ Pure(last'.n)

\* the evaluation that follows at once on an evaluation of the same pure
\* tree; its result replaces the first result in the handle that held it
SecondEvaluation ==
  /\ last.op = "node_evaluate" /\ Pure(last.n)
  /\ last'.op = "evaluate_assign"
  /\ last'.n = last.n
  /\ last'.old = last.ret

\* C15: evaluating a tree of Literal, And and Or nodes twice in succession
\* gives the same result both times, and each of the two evaluations
\* leaves the nodes, operands and reference counts of the tree as they
\* were.
C15_PureEvaluationIdempotent ==
  [][/\ FirstEvaluation =>
          /\ last'.outcome = "returned"
          /\ TreeUnchanged(last'.n)
     /\ SecondEvaluation =>
          /\ last'.outcome = "returned"
          /\ TreeUnchanged(last.n)
          /\ ValueOf(last.ret)' = ValueOf(last.ret)]_vars

\* an And node was evaluated a second time; the first result, a Bool node
\* of its own, was replaced by the second one and deleted
C15_Witness ==
  /\ last.op = "evaluate_assign"
  /\ Pure(last.n)
  /\ heap[last.n].kind = "And"
  /\ last.old # NULL /\ last.old # last.ret
  /\ heap[last.old].st = "deleted"
  /\ ValueOf(last.ret) = "true"

\* operand c of the evaluated node was evaluated
WasEvaluated(c) == \E k \in DOMAIN last.evaluated : last.evaluated[k] = c

\* operand j can decide the result: it can evaluate falsy under an And
\* node, truthy under an Or node
Decides(j) ==
  \E v \in EvaluateValues(heap[last.n].operands[j]) :
    IF heap[last.n].kind = "And" THEN ~Truthy(v) ELSE Truthy(v)

\* C16: one evaluation of an And / Or node evaluates its operands from left
\* to right, each at most once and none before an earlier one; an operand
\* is left out only by short-circuit, that is only if an earlier operand
\* was evaluated and decided the result.
C16_OperandsEvaluatedInOrder ==
  EvaluatedKind({"And", "Or"}) =>
    /\ \A k \in DOMAIN last.evaluated :
         /\ last.evaluated[k] \in DOMAIN heap[last.n].operands
         /\ \A l \in DOMAIN last.evaluated :
              k < l => last.evaluated[k] < last.evaluated[l]
    /\ \A c \in DOMAIN heap[last.n].operands :
         ~WasEvaluated(c) =>
           \E j \in 1..(c - 1) : WasEvaluated(j) /\ Decides(j)

\* a map that read makes a Predicate of, whose plugin is registered and
\* whose configure fails
FailsToConfigure(y) ==
  /\ ExpectedKind(y) = "Predicate"
  /\ PluginName(y) \in Declarations
  /\ ~NameConverts(y)

\* the Predicate node p read from map y owns a plugin whose configure has
\* run once, and the plugin's flag tells whether configure succeeded
Configured(p, y) ==
  /\ p # NULL
  /\ heap[p].kind = "Predicate"
  /\ heap[p].impl # NULL
  /\ plugins[heap[p].impl].configureCalls = 1
  /\ plugins[heap[p].impl].configured = NameConverts(y)

\* C17: a failure of a plugin's configure stays inside the construction of
\* its Procedure: read returns the Predicate, whose plugin has its
\* configured flag false, and nothing is thrown; when the Predicate is an
\* element of All / Any, read returns the And / Or node with one operand
\* per element, and the plugins of the other elements are configured.
C17_ConfigureFailureContained ==
  last.op = "read" =>
    /\ FailsToConfigure(last.y) =>
         /\ last.outcome = "returned"
         /\ Configured(last.ret, last.y)
    /\ ExpectedKind(last.y) \in {"And", "Or"}
         /\ IsSequence(OperandSource(last.y)) =>
         LET items == YamlNodes[OperandSource(last.y)].items IN
         (\E i \in DOMAIN items : FailsToConfigure(items[i])) =>
           /\ last.outcome = "returned"
           /\ last.ret # NULL
           /\ Len(heap[last.ret].operands) = Len(items)
           /\ \A i \in DOMAIN items :
                ExpectedKind(items[i]) = "Predicate"
                  /\ PluginName(items[i]) \in Declarations =>
                  Configured(heap[last.ret].operands[i], items[i])

\* the step evaluates the Predicate node that the step before read from a
\* map whose Type names a registered plugin and whose configure succeeds
EvaluatesConfiguredPredicate ==
  /\ last.op = "read"
  /\ ExpectedKind(last.y) = "Predicate"
  /\ PluginName(last.y) \in Declarations
  /\ NameConverts(last.y)
  /\ last.ret # NULL
  /\ last'.op = "node_evaluate"
  /\ last'.n = last.ret

\* C18: evaluating a Predicate whose plugin was configured calls the
\* plugin's update exactly once and returns its result as a Bool; with
\* AlwaysTrueCondition the evaluation returns Bool(true).
C18_PredicateEvaluatesPlugin ==
  [][EvaluatesConfiguredPredicate =>
       /\ undefined' = "no"
       /\ last'.outcome = "returned"
       /\ ValueOf(last.ret)' = "true"
       /\ heap[last.ret].impl # NULL
       /\ plugins'[heap[last.ret].impl].updateCalls =
            plugins[heap[last.ret].impl].updateCalls + 1]_vars

\* ================================================= Intersection properties
\* the names under StateName in the Control block of script s
ControlNames(s) ==
  {IntersectionScripts[s].Control[i].StateName :
     i \in {j \in DOMAIN IntersectionScripts[s].Control :
              IntersectionScripts[s].Control[j].named}}

\* the simulator's record of the most recent call made to it
Applied(simulator) == simulator[Len(simulator)]

\* C11: change_to(name) accepts any name: the call returns, current_state
\* is the requested name, exactly one controller is applied to the
\* simulator - the one registered for the name, or Blank if the name is not
\* among the Control state names - and the call returns the simulator's
\* answer.
C11_ChangeToAcceptsAnyName ==
  [][called'.op = "change_to" =>
       /\ called'.outcome = "returned"
       /\ current_state_' = called'.the_state
       /\ Len(simulator_') = Len(simulator_) + 1
       /\ Applied(simulator_').controller =
            IF called'.the_state \in ControlNames(script_)
            THEN change_to_[called'.the_state] ELSE Blank
       /\ called'.ok = Applied(simulator_').answer]_vars

\* change_to("NameNotInControl") applied Blank, returned the simulator's
\* success, and the requested name is the current state
C11_Witness ==
  /\ called.op = "change_to"
  /\ called.the_state = "NameNotInControl"
  /\ "NameNotInControl" \notin ControlNames(script_)
  /\ current_state_ = "NameNotInControl"
  /\ Applied(simulator_).controller = Blank
  /\ called.ok = TRUE

\* C12: the states mapping and the ids do not change after construction:
\* whatever change_to, update and ids calls were made, the state names in
\* the mapping and the controller bound to each are those the constructor
\* built from the Control block, and ids() returns the identifiers it
\* returned right after construction.
C12_StatesAndIdsImmutable ==
  script_ # 0 =>
    /\ DOMAIN change_to_ = ControlNames(script_)
    /\ change_to_ = Intersection(script_).change_to_
    /\ ids_ = Intersection(script_).ids_
    /\ called.op = "ids" => called.ids = Intersection(script_).ids_

\* C13: update returns "ongoing" for every time and in every state, changes
\* neither current_state nor the mapping, and makes no call to the
\* simulator; current_state changes only in a change_to call.
C13_UpdateIsOngoingAndInert ==
  [][/\ called'.op = "update" =>
          /\ called'.outcome = "returned"
          /\ called'.status = "ongoing"
          /\ current_state_' = current_state_
          /\ simulator_' = simulator_
     /\ current_state_' # current_state_ => called'.op = "change_to"]_vars

\* update at a later time, in a state entered by change_to, answered
\* "ongoing" and the state is still the one entered
C13_Witness ==
  /\ called.op = "update"
  /\ called.time = 1
  /\ called.status = "ongoing"
  /\ current_state_ = "Green"
  /\ Len(simulator_) = 1

Reported(error) == \E i \in DOMAIN called.log : called.log[i] = error

\* the elements of the Control block of script s that have no StateName
Unnamed(s) ==
  {j \in DOMAIN IntersectionScripts[s].Control :
     ~IntersectionScripts[s].Control[j].named}

\* C14: construction tolerates missing keys: without TrafficLightId an
\* error is reported, the constructor returns and ids() is empty; without
\* Control an error is reported, the constructor returns and the mapping is
\* empty; a Control element without StateName is reported and skipped, the
\* constructor returns, and every element that has a StateName is
\* registered under its name.
C14_ConstructionTolerant ==
  called.op = "Intersection" =>
    LET script == IntersectionScripts[called.script] IN
    /\ ~script.hasIds =>
         /\ called.outcome = "returned"
         /\ script_ = called.script
         /\ Reported(MissingTrafficLightId)
         /\ ids = <<>>
    /\ ~script.hasControl =>
         /\ called.outcome = "returned"
         /\ script_ = called.script
         /\ Reported(MissingControl)
         /\ DOMAIN change_to_ = {}
    /\ script.hasControl /\ Unnamed(called.script) # {} =>
         /\ called.outcome = "returned"
         /\ script_ = called.script
         /\ Reported(MissingStateName)
         /\ DOMAIN change_to_ = ControlNames(called.script)
         /\ \A name \in DOMAIN change_to_ :
              /\ change_to_[name] # Blank
              /\ change_to_[name].entry.named
              /\ change_to_[name].entry.StateName = name

\* the element without StateName stood between two named elements: it was
\* reported, and the elements before and after it are both registered
C14_Witness ==
  /\ called.op = "Intersection"
  /\ called.outcome = "returned"
  /\ Unnamed(called.script) = {2}
  /\ Reported(MissingStateName)
  /\ DOMAIN change_to_ = {"Red", "Green"}

\* C19: once change_to was called, current_state is the argument of the
\* most recent change_to call, whatever the simulator answered: a change_to
\* step leaves current_state at its argument when the simulator reports
\* success and when it reports failure, and no other step changes it.
C19_CurrentStateIsLastRequested ==
  [][/\ called'.op = "change_to" /\ called'.ok =>
          current_state_' = called'.the_state
     /\ called'.op = "change_to" /\ ~called'.ok =>
          current_state_' = called'.the_state
     /\ called'.op # "change_to" => current_state_' = current_state_]_vars

\* the simulator refused the controller of the second change_to, whose
\* name differs from the first one's, and current_state is that second name
C19_Witness ==
  /\ called.op = "change_to"
  /\ ~called.ok
  /\ Len(simulator_) = 2
  /\ simulator_[1].answer
  /\ simulator_[1].controller # simulator_[2].controller
  /\ current_state_ = called.the_state

\* the first element of the Control block of script s named `name`
FirstNamed(s, name) ==
  LET control == IntersectionScripts[s].Control
      j == Min({i \in DOMAIN control :
                  control[i].named /\ control[i].StateName = name})
  IN control[j]

\* the names that several elements of the Control block of script s have
Duplicated(s) ==
  LET control == IntersectionScripts[s].Control IN
  {control[i].StateName :
     i \in {j \in DOMAIN control :
              /\ control[j].named
              /\ \E k \in DOMAIN control :
                   k # j /\ control[k].named
                         /\ control[k].StateName = control[j].StateName}}

\* C20: a name that several Control elements have is bound, in the states
\* mapping, to the controller of the first of those elements, and a
\* change_to of that name applies that first element's controller.
C20_FirstDuplicateWins ==
  script_ # 0 =>
    \A name \in Duplicated(script_) :
      /\ name \in DOMAIN change_to_
      /\ change_to_[name] = Controller(FirstNamed(script_, name))
      /\ called.op = "change_to" /\ called.the_state = name =>
           Applied(simulator_).controller = Controller(FirstNamed(script_, name))

\* Control names Red twice, with different colours; change_to("Red")
\* applied the red one, which comes first
C20_Witness ==
  /\ script_ # 0
  /\ Duplicated(script_) = {"Red"}
  /\ called.op = "change_to"
  /\ called.the_state = "Red"
  /\ Applied(simulator_).controller.entry.Color = "red"
  /\ \E i \in DOMAIN IntersectionScripts[script_].Control :
       IntersectionScripts[script_].Control[i].Color = "green"

====
